---- MODULE Spec2Model ----
(***************************************************************************)
(* Kenya Gazette scanner: the persistent match store (helpers/db.js), the  *)
(* routes that read and clear it, the decision engine processMatches, the  *)
(* POST /match route with its three modes, and the line scan               *)
(* extractGazetteRecords (helpers/parse.js).                               *)
(*                                                                         *)
(* Encoding.  A missing (undefined/null) text field is Undefined, a        *)
(* missing number or boolean is the empty tuple and a present one <<v>>;   *)
(* SQL NULL is NULL.  Scores are kept in tenths (0.8 is 8), those of the   *)
(* /match route in thousandths (0.85 is 850).  Text columns               *)
(* are strings; the order SQLite gives them (BINARY collation) is TextRank.*)
(***************************************************************************)
EXTENDS Integers, Sequences, FiniteSets, TLC

Undefined == "undefined"
NULL == "NULL"

(***************************************************************************)
(* Bounds of the model.                                                    *)
(***************************************************************************)
\* longest matches array handed to saveMatchesToDB
MaxRows == 3
\* cap on the AUTOINCREMENT counter (rows ever inserted)
MaxId == 2
\* longest candidate list handed to processMatches
MaxCand == 2

\* options.batchSize || 500
DefaultBatchSize == 500

\* the connections (one per call in flight)
Callers == {1, 2}

\* the connection of the calls that run one at a time
Solo == {1}

(***************************************************************************)
(* Input domains.                                                          *)
(***************************************************************************)
Stations == {Undefined, "Nairobi High Court"}
Dates == {Undefined, "1 May 2020"}
RawNames == {"JOHN KAMAU", "MARY WANJIRU"}
ExcelNames == {Undefined, "J. Kamau", "John K."}
MatchTypes == {Undefined, "exact"}
Scores == {<<>>, <<5>>}
Statuses == {Undefined, "Published", "Approved"}
BatchSizes == {<<>>, <<1>>, <<2>>}

\* a row of the matches array

CauseNo == "123 OF 2020"
VolumeNo == "Vol. CXXII No. 1"

Row(st, nm, ex, mt, sc, status, dt) ==
    [court_station |-> st, cause_no |-> CauseNo, name_norm |-> Undefined,
     name_of_deceased |-> nm, excel_name |-> ex, match_type |-> mt,
     score |-> sc, duplicate |-> <<>>, status_at_gp |-> status,
     volume_no |-> VolumeNo, date_published |-> dt]

\* rows that vary in court station and status
StatusRows ==
    {Row(st, "JOHN KAMAU", "J. Kamau", Undefined, <<>>, status, Undefined) :
        st \in Stations, status \in Statuses}

\* rows that vary in court station and score
ScoreRows ==
    {Row(st, "JOHN KAMAU", "J. Kamau", Undefined, sc, Undefined, Undefined) :
        st \in Stations, sc \in Scores}

\* rows that vary in court station and in the optional columns
OptRows ==
    {Row(st, "JOHN KAMAU", ex, mt, <<>>, Undefined, Undefined) :
        st \in Stations, ex \in ExcelNames, mt \in MatchTypes}

\* rows that vary in the columns of the key the callers set
ListRows ==
    {Row(st, "JOHN KAMAU", "J. Kamau", Undefined, <<>>, Undefined, dt) :
        st \in Stations, dt \in Dates}
    \cup {Row(Undefined, "MARY WANJIRU", "J. Kamau", Undefined, <<>>, Undefined,
               Undefined)}

\* gazette records, the g side of a candidate
GazetteRecs ==
    {[court_station |-> st, cause_no |-> CauseNo,
      name_of_deceased |-> "JOHN KAMAU", volume_no |-> VolumeNo,
      date_published |-> Undefined] : st \in {"Nairobi High Court", "Kisumu High Court"}}

\* registry rows, the ex side of a candidate
ExcelRows == {[_name_raw |-> "J. Kamau"]}

\* candidates {g, ex, score}: complete ones, whose score may be missing,
\* and high-scoring ones with a side missing
Candidates ==
    [g : {<<x>> : x \in GazetteRecs}, ex : {<<x>> : x \in ExcelRows},
     score : {<<>>, <<5>>, <<8>>}]
    \cup [g : {<<>>}, ex : {<<x>> : x \in ExcelRows}, score : {<<8>>}]
    \cup [g : {<<x>> : x \in GazetteRecs}, ex : {<<>>}, score : {<<8>>}]

\* the acceptThreshold and the reviewThreshold of a request, missing or given
AcceptThresholds == {<<>>, <<5>>}
ReviewThresholds == {<<>>, <<8>>}

Modes == {Undefined, "exact", "soundex"}

ValidModes == {"exact", "fuzzy", "tokens"}

\* acceptThreshold = 0.8 and reviewThreshold = 0.5, in tenths
DefaultAccept == 8
DefaultReview == 5

RECURSIVE SeqsUpTo(_, _)
\* the sequences over S of length at most k
SeqsUpTo(S, k) ==
    IF k = 0 THEN {<< >>}
    ELSE LET shorter == SeqsUpTo(S, k - 1)
         IN shorter \cup {Append(q, x) : q \in {t \in shorter : Len(t) = k - 1}, x \in S}

(***************************************************************************)
(* JavaScript and SQL conversions of saveMatchesToDB's bind parameters.    *)
(***************************************************************************)
\* a falsy text value
Falsy(x) == x \in {Undefined, ""}

\* x || ""
OrEmpty(x) == IF Falsy(x) THEN "" ELSE x

\* x || null
OrNull(x) == IF Falsy(x) THEN NULL ELSE x

\* Number(m.score ?? 0)
ScoreOf(x) == IF x = <<>> THEN 0 ELSE x[1]

\* Number(m.duplicate ? 1 : 0)
DupOf(x) == IF x = <<>> \/ x = <<FALSE>> THEN 0 ELSE 1

\* Number(options.batchSize || 500)
BatchSizeOf(o) == IF o = <<>> \/ o = <<0>> THEN DefaultBatchSize ELSE o[1]

\* m.status_at_gp || "Published"
StatusOf(x) == IF Falsy(x) THEN "Published" ELSE x

\* normalizeForDB on the names of the model
normalizeForDB(s) ==
    CASE s = "JOHN KAMAU" -> "john kamau"
      [] s = "MARY WANJIRU" -> "mary wanjiru"
      [] OTHER -> ""

\* m.name_norm || normalizeForDB(m.name_of_deceased || "")
NameNormOf(m) ==
    IF Falsy(m.name_norm) THEN normalizeForDB(OrEmpty(m.name_of_deceased))
    ELSE m.name_norm

\* the values bound to the INSERT's placeholders
Bind(m) ==
    [court_station |-> OrEmpty(m.court_station),
     cause_no |-> OrEmpty(m.cause_no),
     name_norm |-> NameNormOf(m),
     name_of_deceased |-> OrEmpty(m.name_of_deceased),
     excel_name |-> OrNull(m.excel_name),
     match_type |-> OrNull(m.match_type),
     score |-> ScoreOf(m.score),
     duplicate |-> DupOf(m.duplicate),
     status_at_gp |-> StatusOf(m.status_at_gp),
     volume_no |-> OrEmpty(m.volume_no),
     date_published |-> OrEmpty(m.date_published)]

(***************************************************************************)
(* The table gazette_matches and its statements.                           *)
(***************************************************************************)
\* the columns of ux_gazette_match
Key(r) ==
    <<r.court_station, r.cause_no, r.name_norm, r.date_published, r.volume_no>>

Coalesce(a, b) == IF a # NULL THEN a ELSE b

Max2(a, b) == IF a >= b THEN a ELSE b

\* ON CONFLICT ... DO UPDATE SET, old the stored row and ex the excluded one
ConflictStatusMut(old, ex) == ex.status_at_gp

ConflictStatus(old, ex) ==
    IF ex.status_at_gp = "Approved" THEN "Approved" ELSE old.status_at_gp

ConflictScoreMut(old, ex) == ex.score

ConflictScore(old, ex) == Max2(old.score, ex.score)

ConflictExcelName(old, ex) == Coalesce(ex.excel_name, old.excel_name)

ConflictMatchType(old, ex) == Coalesce(ex.match_type, old.match_type)

DoUpdate(old, ex) ==
    [old EXCEPT !.status_at_gp = ConflictStatus(old, ex),
                !.excel_name = ConflictExcelName(old, ex),
                !.match_type = ConflictMatchType(old, ex),
                !.score = ConflictScore(old, ex),
                !.hist = old.hist \cup {ex.score},
                !.last = [status_at_gp |-> ex.status_at_gp, score |-> ex.score]]

\* the stored rows the unique index finds in conflict with the new row
ConflictingMut(rows, b) == {}

Conflicting(rows, b) == {r \in rows : Key(r) = Key(b)}

\* a new row.  History fields, no columns of the table: hist, the
\* scores upserted to the row, first, the status the upsert that inserted the
\* row carried, and last, the status and score of the latest upsert to the row
NewRow(b, id) ==
    [id |-> id,
     court_station |-> b.court_station, cause_no |-> b.cause_no,
     name_norm |-> b.name_norm, name_of_deceased |-> b.name_of_deceased,
     excel_name |-> b.excel_name, match_type |-> b.match_type,
     score |-> b.score, duplicate |-> b.duplicate,
     status_at_gp |-> b.status_at_gp, volume_no |-> b.volume_no,
     date_published |-> b.date_published, hist |-> {b.score},
     first |-> b.status_at_gp,
     last |-> [status_at_gp |-> b.status_at_gp, score |-> b.score]]

\* stmt.run of the INSERT ... ON CONFLICT statement on table t = [rows, seq]:
\* the table after it, and the result's changes and lastID (last the
\* connection's last insert rowid before the statement)
Upsert(t, m, last) ==
    LET b == Bind(m)
        hit == Conflicting(t.rows, b)
    IN IF hit = {}
       THEN [rows |-> t.rows \cup {NewRow(b, t.seq + 1)}, seq |-> t.seq + 1,
             changes |-> 1, lastID |-> t.seq + 1]
       ELSE [rows |-> (t.rows \ hit) \cup {DoUpdate(r, b) : r \in hit},
             seq |-> t.seq, changes |-> 1, lastID |-> last]

\* a SELECT with HAVING COUNT(*) > 2
DupNamesMut(rows) ==
    {x \in {r.excel_name : r \in rows} :
        /\ Coalesce(x, "") # ""
        /\ Cardinality({r \in rows : r.excel_name = x}) > 2}

\* flagDuplicates' SELECT: the excel_name values stored on more than one row
DupNames(rows) ==
    {x \in {r.excel_name : r \in rows} :
        /\ Coalesce(x, "") # ""
        /\ Cardinality({r \in rows : r.excel_name = x}) > 1}

\* flagDuplicates' UPDATE ... WHERE excel_name IN (names)
SetDuplicate(rows, nms) ==
    {IF r.excel_name \in nms THEN [r EXCEPT !.duplicate = 1] ELSE r : r \in rows}

\* the rank of a text value in SQLite's order of the model's values
TextRank(s) ==
    CASE s = NULL -> 0
      [] s = "" -> 1
      [] s = "1 May 2020" -> 2
      [] s = "john kamau" -> 3
      [] s = "mary wanjiru" -> 4

\* ORDER BY date_published DESC, id DESC
MatchesBefore(a, b) ==
    \/ TextRank(a.date_published) > TextRank(b.date_published)
    \/ /\ a.date_published = b.date_published
       /\ a.id > b.id

RECURSIVE Ordered(_)
\* the rows in the order of MatchesBefore
Ordered(rows) ==
    IF rows = {} THEN << >>
    ELSE LET first == CHOOSE a \in rows :
                          \A b \in rows \ {a} : MatchesBefore(a, b)
         IN <<first>> \o Ordered(rows \ {first})

\* SELECT * FROM gazette_matches ORDER BY date_published DESC, id DESC
SelectMatches(rows) == Ordered(rows)

(***************************************************************************)
(* processMatches: the classification of the candidates.                   *)
(***************************************************************************)
\* a parameter's default value
OrDefault(t, d) == IF t = <<>> THEN d ELSE t[1]

\* score >= threshold; an undefined score compares false
AtLeast(score, t) == score # <<>> /\ score[1] >= t

\* publicRow of a candidate with both sides
PublicRow(cand, accept) ==
    LET g == cand.g[1]
    IN [court_station |-> g.court_station, cause_no |-> g.cause_no,
        name_norm |-> Undefined,
        name_of_deceased |-> g.name_of_deceased,
        excel_name |-> cand.ex[1]._name_raw, match_type |-> Undefined,
        score |-> <<>>, duplicate |-> <<>>,
        status_at_gp |-> IF AtLeast(cand.score, accept) THEN "Approved"
                         ELSE "Published",
        volume_no |-> OrEmpty(g.volume_no),
        date_published |-> OrEmpty(g.date_published)]

\* enriched; cand, the candidate's place in the list, stands for _g and _e
Enriched(cands, k, accept) ==
    [public |-> PublicRow(cands[k], accept), _score |-> cands[k].score,
     cand |-> k]

\* the tier the loop body puts candidate k in
TierMut(cand, accept, review) ==
    IF cand.g = <<>> \/ cand.ex = <<>> THEN "skip"
    ELSE IF AtLeast(cand.score, review) THEN "review"
    ELSE IF AtLeast(cand.score, accept) THEN "accept"
    ELSE "none"

Tier(cand, accept, review) ==
    IF cand.g = <<>> \/ cand.ex = <<>> THEN "skip"
    ELSE IF AtLeast(cand.score, accept) THEN "accept"
    ELSE IF AtLeast(cand.score, review) THEN "review"
    ELSE "none"

RECURSIVE Pushed(_, _, _, _, _)
\* the array (accepted or review) after the loop has seen k candidates
Pushed(cands, k, tier, accept, review) ==
    IF k = 0 THEN << >>
    ELSE LET before == Pushed(cands, k - 1, tier, accept, review)
         IN IF Tier(cands[k], accept, review) = tier
            THEN Append(before, Enriched(cands, k, accept))
            ELSE before

Accepted(cands, accept, review) ==
    Pushed(cands, Len(cands), "accept", accept, review)

Review(cands, accept, review) ==
    Pushed(cands, Len(cands), "review", accept, review)

\* accepted.map((m) => m.public)
RowsToSaveMut(accepted, review) ==
    [k \in 1..(Len(accepted) + Len(review)) |-> (accepted \o review)[k].public]

RowsToSave(accepted, review) == [k \in 1..Len(accepted) |-> accepted[k].public]

(***************************************************************************)
(* POST /match of the extraction routes: the matching of gazette records   *)
(* with registry rows.  Scores and thresholds of this route are kept in    *)
(* thousandths (0.85 is 850).                                              *)
(***************************************************************************)
\* longest list of gazette records and of registry rows of a request
MaxMatch == 2

\* the registry names (bestExcelNameKey of the rows) of the model
RegistryNames == {"JOHN KAMAU", "Kamau, John", "John Kamal", ""}

\* a registry with more rows above a threshold than the route keeps
LongRegistry ==
    <<"John Kamal", "JOHN KAMAU", "Kamau, John", "JOHN KAMAU", "John Kamal",
      "JOHN KAMAU", "JOHN KAMAU">>

\* the records extractGazetteRecords hands the route
MatchRecs ==
    {[court_station |-> st, cause_no |-> CauseNo, name_of_deceased |-> nm,
      status_at_gp |-> "Published", volume_no |-> VolumeNo,
      date_published |-> ""] :
        st \in {"Nairobi High Court", "Kisumu High Court"},
        nm \in {"JOHN KAMAU"}}
    \cup {[court_station |-> "Unknown Court", cause_no |-> CauseNo,
            name_of_deceased |-> "MARY WANJIRU", status_at_gp |-> "Published",
            volume_no |-> VolumeNo, date_published |-> ""]}

\* req.query.mode and req.query.threshold
QueryModes == {Undefined, "exact", "fuzzy", "soundex"}
QueryThresholds == {<<>>, <<500>>, <<1500>>}

DefaultThreshold == 850
ThresholdCap == 999
TopCandidates == 5

\* normalizeName on the names of the model
normalizeName(s) ==
    CASE s = "JOHN KAMAU" -> "john kamau"
      [] s = "Kamau, John" -> "kamau john"
      [] s = "John Kamal" -> "john kamal"
      [] s = "MARY WANJIRU" -> "mary wanjiru"
      [] OTHER -> ""

\* tokenizeName on the names of the model: the words of normalizeName, sorted
tokenizeName(s) ==
    CASE s = "JOHN KAMAU" -> "john kamau"
      [] s = "Kamau, John" -> "john kamau"
      [] s = "John Kamal" -> "john kamal"
      [] s = "MARY WANJIRU" -> "mary wanjiru"
      [] OTHER -> ""

\* jaroWinkler(gNorm, ex._name_norm) * 0.7 + jaccard(tokens) * 0.3 of a
\* gazette name and a registry name, in thousandths rounded down
CompositeScore(gName, exName) ==
    CASE normalizeName(gName) = "john kamau" /\ normalizeName(exName) = "john kamau" -> 1000
      [] normalizeName(gName) = "john kamau" /\ normalizeName(exName) = "kamau john" -> 510
      [] normalizeName(gName) = "john kamau" /\ normalizeName(exName) = "john kamal" -> 771
      [] normalizeName(gName) = "mary wanjiru" /\ normalizeName(exName) = "john kamau" -> 400
      [] normalizeName(gName) = "mary wanjiru" /\ normalizeName(exName) = "kamau john" -> 373
      [] normalizeName(gName) = "mary wanjiru" /\ normalizeName(exName) = "john kamal" -> 346
      [] normalizeName(gName) = "" /\ normalizeName(exName) = "" -> 700
      [] OTHER -> 0

\* (req.query.mode || "tokens").toLowerCase(), the modes of the model being
\* in lower case
ModeOf(m) == IF Falsy(m) THEN "tokens" ELSE m

\* Math.max(0, Math.min(0.999, Number(req.query.threshold || 0.85)))
ThresholdOf(t) ==
    LET v == IF t = <<>> THEN DefaultThreshold ELSE t[1]
        low == IF v <= ThresholdCap THEN v ELSE ThresholdCap
    IN IF low >= 0 THEN low ELSE 0

\* normalizeExcelRows, names the resolved names of the rows of the sheet
normalizeExcelRows(names) ==
    [k \in 1..Len(names) |->
        [_rowIndex |-> k - 1, _name_raw |-> names[k],
         _name_norm |-> normalizeName(names[k]),
         _name_tokens |-> tokenizeName(names[k])]]

\* a lookup that compares the sorted tokens
ByNormMut(rows, gNorm) ==
    SelectSeq(rows, LAMBDA r : r._name_tokens # "" /\ r._name_tokens = gNorm)

\* excelByNorm.get(gNorm) || []
ByNorm(rows, gNorm) ==
    SelectSeq(rows, LAMBDA r : r._name_norm # "" /\ r._name_norm = gNorm)

\* excelByTokens.get(gTokens) || []
ByTokens(rows, gTokens) ==
    SelectSeq(rows, LAMBDA r : r._name_tokens # "" /\ r._name_tokens = gTokens)

\* sort((a, b) => b.score - a.score) puts x, which stood after the elements
\* of sorted in the array, behind the elements that score at least as much
InsertByScore(sorted, x) ==
    LET ahead == SelectSeq(sorted, LAMBDA y : y.score >= x.score)
        behind == SelectSeq(sorted, LAMBDA y : y.score < x.score)
    IN ahead \o <<x>> \o behind

RECURSIVE SortByScore(_, _)
SortByScore(scored, k) ==
    IF k = 0 THEN << >>
    ELSE InsertByScore(SortByScore(scored, k - 1), scored[k])

\* slice(0, 5)
Slice(seq, k) == IF Len(seq) <= k THEN seq ELSE SubSeq(seq, 1, k)

\* the fuzzy branch: map, filter, sort, slice, map
Fuzzy(rows, g, threshold) ==
    LET scored == [k \in 1..Len(rows) |->
                    [ex |-> rows[k],
                     score |-> CompositeScore(g.name_of_deceased, rows[k]._name_raw)]]
        kept == SelectSeq(scored, LAMBDA x : x.score >= threshold)
        sorted == SortByScore(kept, Len(kept))
        top == Slice(sorted, TopCandidates)
    IN [k \in 1..Len(top) |-> top[k].ex]

\* the candidates of gazette record g
CandidatesOf(mode, rows, g, threshold) ==
    CASE mode = "exact" -> ByNorm(rows, normalizeName(g.name_of_deceased))
      [] mode = "tokens" -> ByTokens(rows, tokenizeName(g.name_of_deceased))
      [] mode = "fuzzy" -> Fuzzy(rows, g, threshold)
      [] OTHER -> << >>

\* the match row of gazette record g and registry row ex; rec and row, the
\* places of the two in their lists, are history fields
MatchRow(g, ex, k) ==
    [court_station |-> g.court_station, cause_no |-> g.cause_no,
     name_norm |-> Undefined, name_of_deceased |-> g.name_of_deceased,
     excel_name |-> ex._name_raw, match_type |-> Undefined, score |-> <<>>,
     duplicate |-> <<>>, status_at_gp |-> StatusOf(g.status_at_gp),
     volume_no |-> OrEmpty(g.volume_no),
     date_published |-> OrEmpty(g.date_published),
     rec |-> k, row |-> ex._rowIndex]

RECURSIVE MatchedRows(_, _, _, _, _)
\* matchedRows after the loop has seen k gazette records
MatchedRows(mode, rows, gz, threshold, k) ==
    IF k = 0 THEN << >>
    ELSE LET cs == CandidatesOf(mode, rows, gz[k], threshold)
         IN MatchedRows(mode, rows, gz, threshold, k - 1)
                \o [x \in 1..Len(cs) |-> MatchRow(gz[k], cs[x], k)]

\* whether the loop reaches the else branch that answers Unknown mode
UnknownModeSeen(mode, gz) == mode \notin ValidModes /\ Len(gz) > 0

(***************************************************************************)
(* extractGazetteRecords of helpers/parse.js.  A line of the text is what  *)
(* the patterns of the scan see in it: station, the station the court      *)
(* header pattern gives ("" when the line is no header), cause, the number *)
(* the cause pattern captures ("" when it does not match), vol and date,   *)
(* what the patterns of extractHeaderInfo capture, and words, the line as  *)
(* the sequence of the tokens the clean-up of the name tells apart.        *)
(***************************************************************************)
\* the lines of a text the scans draw from
MaxLines == 3

\* for (let j = 0; j <= 5; j++)
LookAhead == 5

\* [lines[i + j], lines[i + j + 1], lines[i + j + 2]]
BlockLines == 3

\* the window of the date around the volume line: volIdx - 5 .. volIdx + 8
DateBefore == 5
DateAfter == 8

TextLine(station, cause, vol, date, words) ==
    [station |-> station, cause |-> cause, vol |-> vol, date |-> date,
     words |-> words]

\* IN THE HIGH COURT OF KENYA AT NAIROBI
HeaderNairobi ==
    TextLine("Nairobi High Court", "", "", "",
             <<"IN", "THE", "HIGH COURT", "OF", "KENYA AT NAIROBI">>)

\* IN THE CHIEF MAGISTRATE'S COURT AT KISUMU
HeaderKisumu ==
    TextLine("Kisumu Magistrates Court", "", "", "",
             <<"IN", "THE", "CHIEF MAGISTRATE'S COURT AT KISUMU">>)

\* IN THE HIGH COURT AT KISII SUCCESSION CAUSE NO. 9 OF 2020 ESTATE OF MARY
\* WANJIRU: the place the header pattern captures runs up to the full stop,
\* and the date pattern finds "9 OF 2020"
HeaderWithCause ==
    TextLine("Kisii Succession Cause No High Court", "9 OF 2020", "",
             "9 OF 2020",
             <<"IN", "THE", "HIGH COURT AT KISII SUCCESSION CAUSE NO. 9 OF 2020",
               "ESTATE OF", "MARY", "WANJIRU">>)

\* CAUSE NO. 123 OF 2020: the date pattern finds "23 OF 2020" in it
CauseLine ==
    TextLine("", "123 OF 2020", "", "23 OF 2020", <<"CAUSE NO. 123 OF 2020">>)

\* CAUSE NO. 7 OF 2021 ESTATE OF MARY WANJIRU, who died OF NAIROBI
CauseWithEstate ==
    TextLine("", "7 OF 2021", "", "7 OF 2021",
             <<"CAUSE NO. 7 OF 2021", "ESTATE OF", "MARY", "WANJIRU", ",",
               "who died", "OF", "NAIROBI">>)

\* ESTATE OF JOHN KAMAU DECEASED
EstateLine ==
    TextLine("", "", "", "", <<"ESTATE OF", "JOHN", "KAMAU", "DECEASED">>)

\* ESTATE OF THE LATE (DECEASED)
EstateNoName ==
    TextLine("", "", "", "", <<"ESTATE OF", "THE", "LATE", "DECEASED">>)

\* OF NAIROBI
PlaceLine == TextLine("", "", "", "", <<"OF", "NAIROBI">>)

\* Vol. CXXII No. 1 1st May, 2020
VolumeLine ==
    TextLine("", "", VolumeNo, "1st May 2020", <<"Vol. CXXII No. 1 1st May 2020">>)

LineKinds ==
    {HeaderNairobi, HeaderKisumu, HeaderWithCause, CauseLine, CauseWithEstate,
     EstateLine, EstateNoName, PlaceLine, VolumeLine}

\* the example of three lines
ExampleText == <<HeaderNairobi, CauseLine, EstateLine>>

\* a cause line whose marker stands on the sixth line after it, which is a
\* cause line with its own marker
SkippedThenEmitted ==
    <<CauseLine, PlaceLine, PlaceLine, PlaceLine, PlaceLine, PlaceLine,
      CauseWithEstate>>

\* texts that reach the end of the lookahead: the marker on the fifth and
\* on the sixth line after the cause line
LongTexts ==
    {<<CauseLine, PlaceLine, PlaceLine, PlaceLine, PlaceLine, EstateLine>>,
     <<HeaderKisumu, CauseLine, PlaceLine, PlaceLine, PlaceLine, PlaceLine,
       PlaceLine, EstateLine>>,
     SkippedThenEmitted}

Texts == SeqsUpTo(LineKinds, MaxLines) \cup LongTexts

\* the tokens that hold a character other than a letter or white space
NonAlpha ==
    {",", "CAUSE NO. 123 OF 2020", "CAUSE NO. 7 OF 2021",
     "HIGH COURT AT KISII SUCCESSION CAUSE NO. 9 OF 2020",
     "CHIEF MAGISTRATE'S COURT AT KISUMU", "Vol. CXXII No. 1 1st May 2020"}

\* /(ESTATE\s+OF)/i.test(ln)
HasEstate(line) == \E k \in 1..Len(line.words) : line.words[k] = "ESTATE OF"

\* extractHeaderInfo(lines): the first volume, the first date of the window
\* around it, else the first date
Smallest(S) == CHOOSE k \in S : \A m \in S : k <= m

extractHeaderInfo(lines) ==
    LET vols == {k \in 1..Len(lines) : lines[k].vol # ""}
        dates == {k \in 1..Len(lines) : lines[k].date # ""}
        near == IF vols = {} THEN {}
                ELSE {k \in dates : /\ k >= Smallest(vols) - DateBefore
                                    /\ k <= Smallest(vols) + DateAfter}
    IN [volumeNo |-> IF vols = {} THEN "" ELSE lines[Smallest(vols)].vol,
        datePublished |-> IF near # {} THEN lines[Smallest(near)].date
                          ELSE IF dates # {} THEN lines[Smallest(dates)].date
                          ELSE ""]

\* the lines the lookahead of the cause line at i tests
WindowMut(lines, i) == {k \in i..(i + LookAhead + 1) : k <= Len(lines)}

Window(lines, i) == {k \in i..(i + LookAhead) : k <= Len(lines)}

RECURSIVE Concat(_, _, _)
\* the words of lines[from..to], joined
Concat(lines, from, to) ==
    IF from > to \/ from > Len(lines) THEN << >>
    ELSE lines[from].words \o Concat(lines, from + 1, to)

\* estateBlock of the cause line at i, << >> for ""
EstateBlock(lines, i) ==
    LET found == {k \in Window(lines, i) : HasEstate(lines[k])}
    IN IF found = {} THEN << >>
       ELSE Concat(lines, Smallest(found), Smallest(found) + BlockLines - 1)

\* the text as its tokens; glue says that no white space parts the token
\* from the one before it
Elems(words) ==
    [k \in 1..Len(words) |-> [w |-> words[k], glue |-> words[k] = ","]]

\* \b on the left and on the right of token k
BoundLeft(e, k) == ~(e[k].glue /\ k > 1 /\ e[k - 1].w \notin {",", ""})
BoundRight(e, k) ==
    ~(k < Len(e) /\ e[k + 1].glue /\ e[k + 1].w \notin {",", ""})

\* .replace(/.*ESTATE\s+OF\s*/i, ""): greedy, through the last marker
StripToEstate(e) ==
    LET at == {k \in 1..Len(e) : e[k].w = "ESTATE OF"}
    IN IF at = {} THEN e
       ELSE SubSeq(e, (CHOOSE k \in at : \A m \in at : m <= k) + 1, Len(e))

\* .replace(/\(?\s*DECEASED\s*\)?/gi, ""): the white space around it goes too
DropDeceased(e) ==
    LET marked == [k \in 1..Len(e) |->
                     [e[k] EXCEPT !.glue = @ \/ (k > 1 /\ e[k - 1].w = "DECEASED")]]
    IN SelectSeq(marked, LAMBDA x : x.w # "DECEASED")

\* .replace(/\b(THE|LATE)\b/gi, "")
DropArticles(e) ==
    [k \in 1..Len(e) |->
        IF e[k].w \in {"THE", "LATE"} /\ BoundLeft(e, k) /\ BoundRight(e, k)
        THEN [e[k] EXCEPT !.w = ""] ELSE e[k]]

\* name.split(pattern)[0] for "who died" and for ","
CutAt(e, tok) ==
    LET at == {k \in 1..Len(e) : e[k].w = tok}
    IN IF at = {} THEN e ELSE SubSeq(e, 1, Smallest(at) - 1)

\* .replace(/\bof\s+[A-Z][A-Za-z\s]+$/i, "")
StripOfPlace(e) ==
    LET at == {k \in 1..Len(e) :
                 /\ e[k].w = "OF"
                 /\ BoundLeft(e, k)
                 /\ k < Len(e)
                 /\ ~e[k + 1].glue
                 /\ \A m \in (k + 1)..Len(e) : e[m].w \notin NonAlpha
                 /\ \E m \in (k + 1)..Len(e) : e[m].w # ""}
    IN IF at = {} THEN e ELSE SubSeq(e, 1, Smallest(at) - 1)

RECURSIVE Join(_, _)
\* the first k tokens as text
Join(e, k) ==
    IF k = 0 THEN ""
    ELSE IF k = 1 THEN e[1].w
    ELSE Join(e, k - 1) \o (IF e[k].glue THEN "" ELSE " ") \o e[k].w

\* .trim() of the text of the tokens
Trimmed(e) ==
    LET full == {k \in 1..Len(e) : e[k].w # ""}
    IN IF full = {} THEN ""
       ELSE LET cut == SubSeq(e, Smallest(full),
                              CHOOSE k \in full : \A m \in full : m <= k)
            IN Join(cut, Len(cut))

\* name of the estate block
CleanName(block) ==
    Trimmed(StripOfPlace(CutAt(CutAt(
        DropArticles(DropDeceased(StripToEstate(Elems(block)))),
        "who died"), ",")))

\* currentStation after the line
StationAfterMut(line, currentStation) == currentStation

StationAfter(line, currentStation) ==
    IF line.station # "" THEN line.station ELSE currentStation

\* the line whose marker the name of the cause line at i comes from: the
\* greedy strip leaves what follows the last marker of the block
NameLine(lines, i) ==
    LET found == {k \in Window(lines, i) : HasEstate(lines[k])}
        inBlock == {k \in found : k <= Smallest(found) + BlockLines - 1}
    IN CHOOSE k \in inBlock : \A m \in inBlock : m <= k

\* records.push({...}) of the cause line at i; at and from are history
\* fields
GazetteRecord(lines, i, currentStation, info) ==
    [court_station |-> IF currentStation = "" THEN "Unknown Court"
                       ELSE currentStation,
     cause_no |-> lines[i].cause,
     name_of_deceased |-> CleanName(EstateBlock(lines, i)),
     status_at_gp |-> "Published",
     volume_no |-> info.volumeNo,
     date_published |-> info.datePublished,
     at |-> i, from |-> NameLine(lines, i)]

\* whether the body of the loop reaches records.push for line i
Emits(lines, i) ==
    /\ lines[i].station = ""
    /\ lines[i].cause # ""
    /\ EstateBlock(lines, i) # << >>
    /\ CleanName(EstateBlock(lines, i)) # ""

(***************************************************************************)
(* bestExcelNameKey: helpers/match.js, and the copy of part_002.  A row of *)
(* the sheet is the sequence of its entries <<label, value>> in the order  *)
(* of Object.entries; sheet_to_json gives every row distinct labels.       *)
(***************************************************************************)
\* the columns of a row the resolvers are given
MaxCols == 2

\* the headers of the sheet
Labels ==
    {"Name of the Deceased", "Full Name", "Name", "Deceased's ID", "ID No"}

\* the cells: sheet_to_json with defval "" gives "" for an empty cell
Cells == {"", "JOHN KAMAU", " MARY WANJIRU "}

\* normKey(k): lower case, runs of other characters than a-z0-9 to one
\* space, trimmed
normKey(k) ==
    CASE k = "Name of the Deceased" -> "name of the deceased"
      [] k = "Full Name" -> "full name"
      [] k = "Name" -> "name"
      [] k = "Deceased's ID" -> "deceased s id"
      [] k = "ID No" -> "id no"
      [] OTHER -> ""

\* k.includes("deceased")
IncludesDeceased(k) == k \in {"name of the deceased", "deceased s id"}

\* String(v).trim()
TrimCell(v) ==
    CASE v = " MARY WANJIRU " -> "MARY WANJIRU"
      [] OTHER -> v

\* candidates of helpers/match.js
NameSynonyms ==
    <<"name of the deceased", "name of deceased", "name deceased",
      "deceased name", "deceased s name", "name deceased s",
      "name (deceased)", "full name", "fullname", "deceased">>

\* candidates of part_002
LegacySynonyms == NameSynonyms \o <<"name">>

\* the rows: entries with distinct labels
SheetRows ==
    {r \in SeqsUpTo(Labels \X Cells, MaxCols) :
        \A a \in 1..Len(r), b \in 1..Len(r) : r[a][1] = r[b][1] => a = b}

\* map[key], undefined as ""
MapGet(row, key) ==
    LET at == {k \in 1..Len(row) : normKey(row[k][1]) = key}
    IN IF at = {} THEN ""
       ELSE row[CHOOSE k \in at : \A m \in at : m <= k][2]

\* for (const key of candidates) if (map[key]) return ...; then the entries
\* of map whose key includes "deceased"; then ""
Resolve(candidates, row) ==
    LET hits == {c \in 1..Len(candidates) : MapGet(row, candidates[c]) # ""}
        loose == {k \in 1..Len(row) :
                    /\ IncludesDeceased(normKey(row[k][1]))
                    /\ MapGet(row, normKey(row[k][1])) # ""}
    IN IF hits # {}
       THEN TrimCell(MapGet(row, candidates[CHOOSE c \in hits : \A m \in hits : c <= m]))
       ELSE IF loose # {}
       THEN TrimCell(MapGet(row,
                normKey(row[CHOOSE k \in loose : \A m \in loose : k <= m][1])))
       ELSE ""

\* bestExcelNameKey of helpers/match.js
bestExcelNameKey(row) == Resolve(NameSynonyms, row)

\* bestExcelNameKey of part_002
bestExcelNameKeyLegacy(row) == Resolve(LegacySynonyms, row)

(***************************************************************************)
(* State.                                                                  *)
(***************************************************************************)
VARIABLES
    db,        \* the committed table: [rows, seq], seq the AUTOINCREMENT counter
    writer,    \* the connection holding the write lock, 0 for none
    resp,      \* the response of the step that ended an operation, else NoResp
    pc,        \* per connection: where saveMatchesToDB stands
    n,         \* matches.length
    given,     \* the matches array when the caller built it (processMatches)
    bs,        \* batchSize
    i,         \* the batch loop's i
    j,         \* rows of the current batch already run
    work,      \* the connection's view of the table inside its transaction
    lastID,    \* the connection's last insert rowid
    inserted,  \* the inserted array: each pushed {id, ...m} as m's index
    names,     \* flagDuplicates' names
    proc,      \* the processMatches call that awaits saveMatchesToDB
    outcomes,  \* per connection: how each batch of the call ended (history)
    scan,      \* the extractGazetteRecords call: its text, i, station, records
    sheet      \* the registry row bestExcelNameKey was last given, and its answer

vars == <<db, writer, resp, pc, n, given, bs, i, j, work, lastID, inserted,
          names, proc, outcomes, scan, sheet>>

EmptyTable == [rows |-> {}, seq |-> 0]

\* the request a saveMatchesToDB call serves: route is "save" for a direct
\* call, "process" for processMatches (on is TRUE) and "match" for POST /match;
\* asked is the threshold of the query, threshold the one the route uses
NoProc ==
    [on |-> FALSE, route |-> "save", mode |-> Undefined, candidates |-> << >>,
     acceptThreshold |-> 0, reviewThreshold |-> 0,
     accepted |-> << >>, review |-> << >>,
     asked |-> 0, threshold |-> 0, gazetteRecords |-> << >>,
     excelRows |-> << >>, matchedRows |-> << >>]

\* a response.  History fields: len, the length of the matches array the
\* saveMatchesToDB call was given, request, the processMatches or /match
\* call, and unclosed, the handles the operation opened and did not close
NoResp ==
    [op |-> "none", error |-> "", deleted |-> 0, rows |-> << >>,
     inserted |-> << >>, accepted |-> << >>, review |-> << >>,
     matchedCount |-> 0, insertedCount |-> 0, len |-> 0, request |-> NoProc,
     unclosed |-> 0]

locals == <<n, given, bs, i, j, work, lastID, inserted, names, proc, outcomes>>

\* no bestExcelNameKey call yet; by names the module of the resolver
NoSheet == [by |-> "none", row |-> << >>, rawName |-> ""]

\* no extractGazetteRecords call yet; on says that the loop runs, i counts
\* the lines it has read
NoScan ==
    [on |-> FALSE, lines |-> << >>, i |-> 0, currentStation |-> "",
     info |-> [volumeNo |-> "", datePublished |-> ""], records |-> << >>]

Init ==
    /\ db = EmptyTable
    /\ writer = 0
    /\ resp = NoResp
    /\ pc = [c \in Callers |-> "idle"]
    /\ n = [c \in Callers |-> 0]
    /\ given = [c \in Callers |-> << >>]
    /\ bs = [c \in Callers |-> 0]
    /\ i = [c \in Callers |-> 0]
    /\ j = [c \in Callers |-> 0]
    /\ work = [c \in Callers |-> EmptyTable]
    /\ lastID = [c \in Callers |-> 0]
    /\ inserted = [c \in Callers |-> << >>]
    /\ names = [c \in Callers |-> {}]
    /\ proc = [c \in Callers |-> NoProc]
    /\ outcomes = [c \in Callers |-> << >>]
    /\ scan = NoScan
    /\ sheet = NoSheet

\* the locals of a call that has ended
Forget(c) ==
    /\ n' = [n EXCEPT ![c] = 0]
    /\ given' = [given EXCEPT ![c] = << >>]
    /\ bs' = [bs EXCEPT ![c] = 0]
    /\ i' = [i EXCEPT ![c] = 0]
    /\ j' = [j EXCEPT ![c] = 0]
    /\ work' = [work EXCEPT ![c] = EmptyTable]
    /\ lastID' = [lastID EXCEPT ![c] = 0]
    /\ inserted' = [inserted EXCEPT ![c] = << >>]
    /\ names' = [names EXCEPT ![c] = {}]
    /\ proc' = [proc EXCEPT ![c] = NoProc]
    /\ outcomes' = [outcomes EXCEPT ![c] = << >>]

(***************************************************************************)
(* saveMatchesToDB, one action per awaited step.                           *)
(***************************************************************************)
\* matches.slice(i, i + batchSize).length
BatchLen(c) == IF i[c] + bs[c] <= n[c] THEN bs[c] ELSE n[c] - i[c]

\* saveMatchesToDB(matches, options) up to the first BEGIN: the empty array
\* returns [] at once, else the database is opened and the statement prepared
StartSave(c, len, o) ==
    /\ pc[c] = "idle"
    /\ resp = NoResp
    /\ IF len = 0
       THEN /\ resp' = [NoResp EXCEPT !.op = "save"]
            /\ UNCHANGED <<db, writer, pc, locals>>
       ELSE /\ pc' = [pc EXCEPT ![c] = "begin"]
            /\ n' = [n EXCEPT ![c] = len]
            /\ bs' = [bs EXCEPT ![c] = BatchSizeOf(o)]
            /\ resp' = NoResp
            /\ UNCHANGED <<db, writer, given, i, j, work, lastID, inserted,
                           names, proc, outcomes>>
    /\ UNCHANGED <<scan, sheet>>

\* db.exec("BEGIN TRANSACTION;"): deferred, it takes no lock yet
BeginTx(c) ==
    /\ pc[c] = "begin"
    /\ pc' = [pc EXCEPT ![c] = "run"]
    /\ j' = [j EXCEPT ![c] = 0]
    /\ resp' = NoResp
    /\ UNCHANGED <<db, writer, n, given, bs, i, work, lastID, inserted, names,
                   proc, outcomes>>
    /\ UNCHANGED <<scan, sheet>>

\* the element of matches the loop reads: the caller's, or any row of Dom
RowsAt(c, Dom) ==
    IF given[c] # << >> THEN {given[c][i[c] + j[c] + 1]} ELSE Dom

\* stmt.run(...) succeeds: the first statement of a transaction takes the
\* write lock and sees the committed table
RunStmt(c, m) ==
    /\ pc[c] = "run"
    /\ writer \in {0, c}
    /\ LET base == IF writer = c THEN work[c] ELSE db
           u == Upsert(base, m, lastID[c])
       IN /\ u.seq <= MaxId
          /\ work' = [work EXCEPT ![c] = [rows |-> u.rows, seq |-> u.seq]]
          /\ inserted' = [inserted EXCEPT ![c] =
                IF u.changes # 0 THEN Append(@, i[c] + j[c] + 1) ELSE @]
    /\ writer' = c
    /\ j' = [j EXCEPT ![c] = @ + 1]
    /\ pc' = [pc EXCEPT ![c] = IF j[c] + 1 = BatchLen(c) THEN "commit" ELSE "run"]
    /\ resp' = NoResp
    /\ UNCHANGED <<db, n, given, bs, i, lastID, names, proc, outcomes>>
    /\ UNCHANGED <<scan, sheet>>

\* the loop body throws: the element is null (m.name_norm of null), or
\* stmt.run rejects (SQLITE_BUSY, an I/O error)
StmtFail(c) ==
    /\ pc[c] = "run"
    /\ pc' = [pc EXCEPT ![c] = "rollback"]
    /\ resp' = NoResp
    /\ UNCHANGED <<db, writer, locals>>
    /\ UNCHANGED <<scan, sheet>>

\* the for loop's i += batchSize, and what follows the loop
NextBatch(c) ==
    /\ i' = [i EXCEPT ![c] = @ + bs[c]]
    /\ pc' = [pc EXCEPT ![c] = IF i[c] + bs[c] < n[c] THEN "begin" ELSE "flag"]

\* db.exec("COMMIT;") succeeds
CommitOk(c) ==
    /\ pc[c] = "commit"
    /\ db' = work[c]
    /\ writer' = 0
    /\ work' = [work EXCEPT ![c] = EmptyTable]
    /\ outcomes' = [outcomes EXCEPT ![c] = Append(@, "commit")]
    /\ NextBatch(c)
    /\ resp' = NoResp
    /\ UNCHANGED <<n, given, bs, j, lastID, inserted, names, proc>>
    /\ UNCHANGED <<scan, sheet>>

\* db.exec("COMMIT;") rejects
CommitFail(c) ==
    /\ pc[c] = "commit"
    /\ pc' = [pc EXCEPT ![c] = "rollback"]
    /\ resp' = NoResp
    /\ UNCHANGED <<db, writer, locals>>
    /\ UNCHANGED <<scan, sheet>>

\* a catch that keeps the writes of the failed batch
RollbackOkMut(c) ==
    /\ pc[c] = "rollback"
    /\ db' = IF writer = c THEN work[c] ELSE db
    /\ writer' = IF writer = c THEN 0 ELSE writer
    /\ work' = [work EXCEPT ![c] = EmptyTable]
    /\ outcomes' = [outcomes EXCEPT ![c] = Append(@, "rollback")]
    /\ NextBatch(c)
    /\ resp' = NoResp
    /\ UNCHANGED <<n, given, bs, j, lastID, inserted, names, proc>>
    /\ UNCHANGED <<scan, sheet>>

\* catch (err): db.exec("ROLLBACK;") succeeds
RollbackOk(c) ==
    /\ pc[c] = "rollback"
    /\ writer' = IF writer = c THEN 0 ELSE writer
    /\ work' = [work EXCEPT ![c] = EmptyTable]
    /\ outcomes' = [outcomes EXCEPT ![c] = Append(@, "rollback")]
    /\ NextBatch(c)
    /\ resp' = NoResp
    /\ UNCHANGED <<db, n, given, bs, j, lastID, inserted, names, proc>>
    /\ UNCHANGED <<scan, sheet>>

\* catch (err): db.exec("ROLLBACK;") rejects (no transaction is active after
\* an error that rolled it back): finally finalizes the statement and the
\* call rejects
RollbackFail(c) ==
    /\ pc[c] = "rollback"
    /\ writer' = IF writer = c THEN 0 ELSE writer
    /\ resp' = [NoResp EXCEPT !.op = proc[c].route,
                              !.error = "ROLLBACK failed", !.len = n[c],
                              !.unclosed = 1]
    /\ pc' = [pc EXCEPT ![c] = "idle"]
    /\ Forget(c)
    /\ UNCHANGED db
    /\ UNCHANGED <<scan, sheet>>

\* flagDuplicates: the SELECT
FlagSelect(c) ==
    /\ pc[c] = "flag"
    /\ names' = [names EXCEPT ![c] = DupNames(db.rows)]
    /\ pc' = [pc EXCEPT ![c] =
                IF DupNames(db.rows) = {} THEN "close" ELSE "flagupd"]
    /\ resp' = NoResp
    /\ UNCHANGED <<db, writer, n, given, bs, i, j, work, lastID, inserted,
                   proc, outcomes>>
    /\ UNCHANGED <<scan, sheet>>

\* flagDuplicates: the UPDATE
FlagUpdate(c) ==
    /\ pc[c] = "flagupd"
    /\ writer = 0
    /\ db' = [db EXCEPT !.rows = SetDuplicate(@, names[c])]
    /\ pc' = [pc EXCEPT ![c] = "close"]
    /\ resp' = NoResp
    /\ UNCHANGED <<writer, locals>>
    /\ UNCHANGED <<scan, sheet>>

\* processMatches' return value, ins what saveMatchesToDB returned
ProcessResult(p, ins) ==
    [NoResp EXCEPT !.op = "process", !.accepted = p.accepted,
                   !.review = p.review,
                   !.matchedCount = Len(p.accepted) + Len(p.review),
                   !.insertedCount = Len(ins), !.request = p]

\* the answer of POST /match, ins what saveMatchesToDB returned
MatchResult(p, ins) ==
    [NoResp EXCEPT !.op = "match", !.rows = p.matchedRows,
                   !.matchedCount = Len(p.matchedRows),
                   !.insertedCount = Len(ins), !.request = p]

\* db.close() and return inserted; the processMatches or the /match route
\* that awaited it returns
CloseReturn(c) ==
    /\ pc[c] = "close"
    /\ resp' = IF proc[c].on THEN ProcessResult(proc[c], inserted[c])
               ELSE IF proc[c].route = "match"
               THEN MatchResult(proc[c], inserted[c])
               ELSE [NoResp EXCEPT !.op = "save", !.inserted = inserted[c],
                                   !.len = n[c]]
    /\ pc' = [pc EXCEPT ![c] = "idle"]
    /\ Forget(c)
    /\ UNCHANGED <<db, writer>>
    /\ UNCHANGED <<scan, sheet>>

(***************************************************************************)
(* clearMatches (POST /clear-records) and GET /matches.                    *)
(***************************************************************************)
\* a clearMatches that reads the count after the VACUUM
ClearMatchesMut ==
    /\ resp = NoResp
    /\ writer = 0
    /\ db' = [db EXCEPT !.rows = {}]
    /\ resp' = [NoResp EXCEPT !.op = "clear", !.deleted = 0]
    /\ UNCHANGED <<writer, pc, locals>>
    /\ UNCHANGED <<scan, sheet>>

\* DELETE FROM gazette_matches; VACUUM; return res.changes || 0
ClearMatches ==
    /\ resp = NoResp
    /\ writer = 0
    /\ db' = [db EXCEPT !.rows = {}]
    /\ resp' = [NoResp EXCEPT !.op = "clear", !.deleted = Cardinality(db.rows)]
    /\ UNCHANGED <<writer, pc, locals>>
    /\ UNCHANGED <<scan, sheet>>

\* GET /matches
GetMatches ==
    /\ resp = NoResp
    /\ resp' = [NoResp EXCEPT !.op = "matches", !.rows = SelectMatches(db.rows)]
    /\ UNCHANGED <<db, writer, pc, locals>>
    /\ UNCHANGED <<scan, sheet>>

\* res.json(...) or next(err): the response leaves, and the next request
\* is taken
Respond ==
    /\ resp # NoResp
    /\ resp' = NoResp
    /\ UNCHANGED <<db, writer, pc, locals>>
    /\ UNCHANGED <<scan, sheet>>

(***************************************************************************)
(* The rejections of the steps that the handlers do not catch.             *)
(***************************************************************************)
\* saveMatchesToDB: db.prepare(insertSQL) rejects after initDB opened the
\* handle; the await stands before the try, the call rejects
PrepareFail(c, len) ==
    /\ pc[c] = "idle"
    /\ resp = NoResp
    /\ len > 0
    /\ resp' = [NoResp EXCEPT !.op = "save", !.error = "prepare failed",
                              !.len = len, !.unclosed = 1]
    /\ UNCHANGED <<db, writer, pc, locals>>
    /\ UNCHANGED <<scan, sheet>>

\* saveMatchesToDB: flagDuplicates(db) rejects, in its SELECT or in its
\* UPDATE; db.close() stands after it
FlagFail(c) ==
    /\ pc[c] \in {"flag", "flagupd"}
    /\ resp' = [NoResp EXCEPT !.op = proc[c].route,
                              !.error = "flagDuplicates failed",
                              !.len = n[c], !.unclosed = 1]
    /\ pc' = [pc EXCEPT ![c] = "idle"]
    /\ Forget(c)
    /\ UNCHANGED <<db, writer>>
    /\ UNCHANGED <<scan, sheet>>

\* clearMatches: the DELETE or the VACUUM rejects; finally closes the handle
ClearFail(stage) ==
    /\ resp = NoResp
    /\ writer = 0 \/ stage = "delete"
    /\ db' = IF stage = "vacuum" THEN [db EXCEPT !.rows = {}] ELSE db
    /\ resp' = [NoResp EXCEPT !.op = "clear", !.error = stage \o " failed",
                              !.unclosed = 0]
    /\ UNCHANGED <<writer, pc, locals>>
    /\ UNCHANGED <<scan, sheet>>

\* GET /matches: db.all rejects; the catch calls next(err), db.close() stands
\* in the try after the query
GetMatchesFail ==
    /\ resp = NoResp
    /\ resp' = [NoResp EXCEPT !.op = "matches", !.error = "query failed",
                              !.unclosed = 1]
    /\ UNCHANGED <<db, writer, pc, locals>>
    /\ UNCHANGED <<scan, sheet>>

(***************************************************************************)
(* processMatches (POST /process) up to its await of saveMatchesToDB.      *)
(***************************************************************************)
ProcessMatches(c, mode, cands, a, r) ==
    /\ pc[c] = "idle"
    /\ resp = NoResp
    /\ IF mode = Undefined
       THEN /\ resp' = [NoResp EXCEPT !.op = "process", !.error = "Mode is required"]
            /\ UNCHANGED <<db, writer, pc, locals>>
       ELSE IF mode \notin ValidModes
       THEN /\ resp' = [NoResp EXCEPT !.op = "process", !.error = "Unknown mode"]
            /\ UNCHANGED <<db, writer, pc, locals>>
       ELSE LET accept == OrDefault(a, DefaultAccept)
                review == OrDefault(r, DefaultReview)
                p == [NoProc EXCEPT
                        !.on = TRUE, !.route = "process", !.mode = mode,
                        !.candidates = cands,
                        !.acceptThreshold = accept, !.reviewThreshold = review,
                        !.accepted = Accepted(cands, accept, review),
                        !.review = Review(cands, accept, review)]
                rows == RowsToSave(p.accepted, p.review)
            IN IF rows = << >>
               THEN /\ resp' = ProcessResult(p, << >>)
                    /\ UNCHANGED <<db, writer, pc, locals>>
               ELSE /\ proc' = [proc EXCEPT ![c] = p]
                    /\ given' = [given EXCEPT ![c] = rows]
                    /\ n' = [n EXCEPT ![c] = Len(rows)]
                    /\ bs' = [bs EXCEPT ![c] = BatchSizeOf(<<>>)]
                    /\ pc' = [pc EXCEPT ![c] = "begin"]
                    /\ resp' = NoResp
                    /\ UNCHANGED <<db, writer, i, j, work, lastID, inserted,
                                   names, outcomes>>
    /\ UNCHANGED <<scan, sheet>>

(***************************************************************************)
(* POST /match of the extraction routes, from the parsed files up to its   *)
(* await of saveMatchesToDB.  gz are the extracted gazette records, reg    *)
(* the resolved names of the registry rows.                                *)
(***************************************************************************)
MatchRoute(c, m, t, gz, reg) ==
    /\ pc[c] = "idle"
    /\ resp = NoResp
    /\ LET mode == ModeOf(m)
           threshold == ThresholdOf(t)
           rows == normalizeExcelRows(reg)
           p == [NoProc EXCEPT
                   !.route = "match", !.mode = mode, !.threshold = threshold,
                   !.asked = IF t = <<>> THEN DefaultThreshold ELSE t[1],
                   !.gazetteRecords = gz, !.excelRows = rows,
                   !.matchedRows = MatchedRows(mode, rows, gz, threshold, Len(gz))]
       IN IF UnknownModeSeen(mode, gz)
          THEN /\ resp' = [NoResp EXCEPT !.op = "match", !.error = "Unknown mode",
                                         !.request = [p EXCEPT !.matchedRows = << >>]]
               /\ UNCHANGED <<db, writer, pc, locals>>
          ELSE IF p.matchedRows = << >>
          THEN /\ resp' = MatchResult(p, << >>)
               /\ UNCHANGED <<db, writer, pc, locals>>
          ELSE /\ proc' = [proc EXCEPT ![c] = p]
               /\ given' = [given EXCEPT ![c] = p.matchedRows]
               /\ n' = [n EXCEPT ![c] = Len(p.matchedRows)]
               /\ bs' = [bs EXCEPT ![c] = BatchSizeOf(<<>>)]
               /\ pc' = [pc EXCEPT ![c] = "begin"]
               /\ resp' = NoResp
               /\ UNCHANGED <<db, writer, i, j, work, lastID, inserted,
                              names, outcomes>>
    /\ UNCHANGED <<scan, sheet>>

(***************************************************************************)
(* Specifications.                                                         *)
(***************************************************************************)
SaveSteps(c, Dom) ==
    \/ \E len \in 0..MaxRows, o \in BatchSizes : StartSave(c, len, o)
    \/ BeginTx(c)
    \/ pc[c] = "run" /\ \E m \in RowsAt(c, Dom) : RunStmt(c, m)
    \/ StmtFail(c)
    \/ CommitOk(c)
    \/ CommitFail(c)
    \/ RollbackOk(c)
    \/ RollbackFail(c)
    \/ FlagSelect(c)
    \/ FlagUpdate(c)
    \/ CloseReturn(c)

Next ==
    \/ \E c \in Solo : SaveSteps(c, StatusRows)
    \/ ClearMatches
    \/ GetMatches
    \/ Respond

Spec == Init /\ [][Next]_vars

NextScore ==
    \/ \E c \in Solo : SaveSteps(c, ScoreRows)
    \/ ClearMatches
    \/ GetMatches
    \/ Respond

SpecScore == Init /\ [][NextScore]_vars

NextOpt ==
    \/ \E c \in Solo : SaveSteps(c, OptRows)
    \/ ClearMatches
    \/ GetMatches
    \/ Respond

SpecOpt == Init /\ [][NextOpt]_vars

NextList ==
    \/ \E c \in Solo : SaveSteps(c, ListRows)
    \/ ClearMatches
    \/ GetMatches
    \/ Respond

SpecList == Init /\ [][NextList]_vars

SaveStepsGiven(c) ==
    \/ BeginTx(c)
    \/ pc[c] = "run" /\ \E m \in RowsAt(c, {}) : RunStmt(c, m)
    \/ StmtFail(c)
    \/ CommitOk(c)
    \/ CommitFail(c)
    \/ RollbackOk(c)
    \/ RollbackFail(c)
    \/ FlagSelect(c)
    \/ FlagUpdate(c)
    \/ CloseReturn(c)

\* POST /process with a valid mode and any thresholds, or with any mode
ProcessSteps(c) ==
    /\ pc[c] = "idle"
    /\ resp = NoResp
    /\ \/ \E a \in AcceptThresholds, r \in ReviewThresholds,
             cands \in SeqsUpTo(Candidates, MaxCand) :
               ProcessMatches(c, "exact", cands, a, r)
       \/ \E mode \in Modes, cands \in SeqsUpTo(Candidates, 1) :
               ProcessMatches(c, mode, cands, <<>>, <<>>)

NextProcess ==
    \/ \E c \in Solo : ProcessSteps(c)
    \/ \E c \in Solo : SaveStepsGiven(c)
    \/ ClearMatches
    \/ Respond

SpecProcess == Init /\ [][NextProcess]_vars

\* POST /match: fuzzy with a threshold over a long or a short registry, any
\* mode over short lists
MatchSteps(c) ==
    /\ pc[c] = "idle"
    /\ resp = NoResp
    /\ \/ \E t \in QueryThresholds, gz \in SeqsUpTo(MatchRecs, 1),
             reg \in SeqsUpTo(RegistryNames, MaxMatch) \cup {LongRegistry} :
               MatchRoute(c, "fuzzy", t, gz, reg)
       \/ \E m \in QueryModes, gz \in SeqsUpTo(MatchRecs, MaxMatch),
             reg \in SeqsUpTo(RegistryNames, MaxMatch) :
               MatchRoute(c, m, <<>>, gz, reg)

NextMatch ==
    \/ \E c \in Solo : MatchSteps(c)
    \/ \E c \in Solo : SaveStepsGiven(c)
    \/ Respond

SpecMatch == Init /\ [][NextMatch]_vars

\* the rows of two concurrent calls: under one key the row that carries
\* Approved and the row that carries the score, and a row of another key
ConcRows ==
    {Row("Nairobi High Court", "JOHN KAMAU", "J. Kamau", Undefined,
         x[1], x[2], Undefined) :
        x \in {<< <<5>>, "Published" >>, << <<>>, "Approved" >>}}

OtherRow ==
    Row(Undefined, "JOHN KAMAU", "J. Kamau", Undefined, <<>>, "Published",
        Undefined)

\* the matches arrays of the two calls
ConcLists == {<<r>> : r \in ConcRows} \cup {<<OtherRow, r>> : r \in ConcRows}

\* saveMatchesToDB(matches, options) of a non-empty array up to the first BEGIN
SaveGiven(c, rows, o) ==
    /\ pc[c] = "idle"
    /\ given' = [given EXCEPT ![c] = rows]
    /\ n' = [n EXCEPT ![c] = Len(rows)]
    /\ bs' = [bs EXCEPT ![c] = BatchSizeOf(o)]
    /\ pc' = [pc EXCEPT ![c] = "begin"]
    /\ resp' = NoResp
    /\ UNCHANGED <<db, writer, i, j, work, lastID, inserted, names, proc,
                   outcomes>>
    /\ UNCHANGED <<scan, sheet>>

\* stmt.run rejects with SQLITE_BUSY: another connection held the write lock
\* for the whole of the driver's busy timeout
StmtBusy(c) ==
    /\ pc[c] = "run"
    /\ writer \notin {0, c}
    /\ pc' = [pc EXCEPT ![c] = "rollback"]
    /\ resp' = NoResp
    /\ UNCHANGED <<db, writer, locals>>
    /\ UNCHANGED <<scan, sheet>>

\* two calls in flight, each on its connection; a step is taken once the
\* response of the call that ended has left
ConcSteps(c) ==
    /\ resp = NoResp
    /\ \/ \E rows \in ConcLists, o \in {<<>>, <<1>>} : SaveGiven(c, rows, o)
       \/ BeginTx(c)
       \/ pc[c] = "run" /\ \E m \in RowsAt(c, {}) : RunStmt(c, m)
       \/ StmtBusy(c)
       \/ CommitOk(c)
       \/ RollbackOk(c)
       \/ FlagSelect(c)
       \/ FlagUpdate(c)
       \/ CloseReturn(c)

NextConc ==
    \/ \E c \in Callers : ConcSteps(c)
    \/ Respond

SpecConc == Init /\ [][NextConc]_vars

(***************************************************************************)
(* extractGazetteRecords, one action per line of the loop.                 *)
(***************************************************************************)
\* extractGazetteRecords(pdfText) up to the loop
ExtractStart(text) ==
    /\ scan = NoScan
    /\ scan' = [on |-> TRUE, lines |-> text, i |-> 0, currentStation |-> "",
                info |-> extractHeaderInfo(text), records |-> << >>]
    /\ UNCHANGED <<db, writer, resp, pc, locals, sheet>>

\* the line is a court header: currentStation is set, continue
ScanHeader ==
    /\ scan.on
    /\ scan.i < Len(scan.lines)
    /\ scan.lines[scan.i + 1].station # ""
    /\ scan' = [scan EXCEPT
                  !.currentStation = StationAfter(scan.lines[scan.i + 1], @),
                  !.i = @ + 1]
    /\ UNCHANGED <<db, writer, resp, pc, locals, sheet>>

\* the line has no cause number, or its lookahead finds no marker, or the
\* name is empty: continue
ScanSkip ==
    /\ scan.on
    /\ scan.i < Len(scan.lines)
    /\ scan.lines[scan.i + 1].station = ""
    /\ ~Emits(scan.lines, scan.i + 1)
    /\ scan' = [scan EXCEPT !.i = @ + 1]
    /\ UNCHANGED <<db, writer, resp, pc, locals, sheet>>

\* the cause line pushes its record
ScanEmit ==
    /\ scan.on
    /\ scan.i < Len(scan.lines)
    /\ Emits(scan.lines, scan.i + 1)
    /\ scan' = [scan EXCEPT
                  !.records = Append(@, GazetteRecord(scan.lines, scan.i + 1,
                                         scan.currentStation, scan.info)),
                  !.i = @ + 1]
    /\ UNCHANGED <<db, writer, resp, pc, locals, sheet>>

\* return records
ExtractReturn ==
    /\ scan.on
    /\ scan.i = Len(scan.lines)
    /\ scan' = [scan EXCEPT !.on = FALSE]
    /\ UNCHANGED <<db, writer, resp, pc, locals, sheet>>

\* the caller has taken the records; the next text can be read
ExtractTaken ==
    /\ ~scan.on
    /\ scan # NoScan
    /\ scan' = NoScan
    /\ UNCHANGED <<db, writer, resp, pc, locals, sheet>>

NextExtract ==
    \/ \E text \in Texts : ExtractStart(text)
    \/ ScanHeader
    \/ ScanSkip
    \/ ScanEmit
    \/ ExtractReturn
    \/ ExtractTaken

SpecExtract == Init /\ [][NextExtract]_vars

(***************************************************************************)
(* The resolver of the name column.                                        *)
(***************************************************************************)
\* normalizeExcelRows: const rawName = bestExcelNameKey(row) || ""
ExcelName(row) ==
    /\ sheet = NoSheet
    /\ sheet' = [by |-> "match.js", row |-> row,
                 rawName |-> bestExcelNameKey(row)]
    /\ UNCHANGED <<db, writer, resp, pc, locals, scan>>

\* bestExcelNameKey(row) of part_002
LegacyName(row) ==
    /\ sheet = NoSheet
    /\ sheet' = [by |-> "part_002", row |-> row,
                 rawName |-> bestExcelNameKeyLegacy(row)]
    /\ UNCHANGED <<db, writer, resp, pc, locals, scan>>

\* the caller has taken the name; the next row can be resolved
NameTaken ==
    /\ sheet # NoSheet
    /\ sheet' = NoSheet
    /\ UNCHANGED <<db, writer, resp, pc, locals, scan>>

NextSheet ==
    \/ \E row \in SheetRows : ExcelName(row)
    \/ \E row \in SheetRows : LegacyName(row)
    \/ NameTaken

SpecSheet == Init /\ [][NextSheet]_vars

\* the persistence operations with the rejections of their steps
NextClose ==
    \/ \E c \in Solo : SaveSteps(c, StatusRows)
    \/ \E c \in Solo, len \in 1..MaxRows : PrepareFail(c, len)
    \/ \E c \in Solo : FlagFail(c)
    \/ ClearMatches
    \/ \E stage \in {"delete", "vacuum"} : ClearFail(stage)
    \/ GetMatches
    \/ GetMatchesFail
    \/ Respond

SpecClose == Init /\ [][NextClose]_vars

----------------------------------------------------------------------------
\* The properties of the store

\* the tables a connection can read: the committed table and the table of an
\* open transaction
Tables == {db} \cup {work[c] : c \in {d \in Callers : writer = d}}

\* C1: the store never holds two rows with the same (court_station, cause_no,
\* name_norm, date_published, volume_no): an upsert of a stored key updates
\* the stored row and adds none
C1_UniqueKey ==
    \A t \in Tables : \A r1, r2 \in t.rows : Key(r1) = Key(r2) => r1 = r2

\* two upserts of one call were committed, and the table, which has only ever
\* been given one id, holds one row: the second upsert met the key of the first
C1_Witness ==
    \E c \in Callers :
        /\ Len(inserted[c]) >= 2
        /\ outcomes[c] = <<"commit">>
        /\ Cardinality(db.rows) = 1
        /\ db.seq = 1

\* the row of table t that has the id of row r
SameId(t, r) == {q \in t.rows : q.id = r.id}

\* C2: the status of a stored row only moves from Published to Approved: a
\* statement of a transaction, and the commit that publishes it, leave an
\* Approved row Approved and change no status but Published to Approved
C2_Step(before, after) ==
    \A r \in before.rows : \A q \in SameId(after, r) :
        \/ q.status_at_gp = r.status_at_gp
        \/ r.status_at_gp = "Published" /\ q.status_at_gp = "Approved"

C2_StatusMonotonic ==
    [][/\ C2_Step(db, db')
       /\ \A c \in Callers :
            pc[c] = "run" /\ writer' = c =>
                C2_Step(IF writer = c THEN work[c] ELSE db, work'[c])]_vars

\* one key was upserted with Published, then Approved, then Published, and
\* the table holds exactly one row, with status Approved
C2_Witness ==
    \E c \in Callers :
        /\ Len(inserted[c]) = 3
        /\ outcomes[c] = <<"commit", "commit", "commit">>
        /\ db.seq = 1
        /\ \E r \in db.rows :
            /\ db.rows = {r}
            /\ r.first = "Published"
            /\ r.last.status_at_gp = "Published"
            /\ r.status_at_gp = "Approved"

\* C3: the score of a stored row is the highest score upserted to the row, a
\* missing score counting as 0: an upsert with a lower score never lowers it
C3_ScoreIsMax ==
    \A t \in Tables : \A r \in t.rows :
        /\ r.score \in r.hist
        /\ \A x \in r.hist : x <= r.score

\* a committed row was upserted with score 5 and later without a score, and
\* its score is still 5
C3_Witness ==
    \E r \in db.rows :
        /\ r.hist = {0, 5}
        /\ r.last.score = 0
        /\ r.score = 5

\* C4: excel_name and match_type of a stored row are filled in by an upsert
\* only when the stored value is null: a stored non-null value is never
\* changed by a later upsert
C4_Step(before, after) ==
    \A r \in before.rows : \A q \in SameId(after, r) :
        /\ r.excel_name # NULL => q.excel_name = r.excel_name
        /\ r.match_type # NULL => q.match_type = r.match_type

C4_FilledOnlyWhenNull ==
    [][/\ C4_Step(db, db')
       /\ \A c \in Callers :
            pc[c] = "run" /\ writer' = c =>
                C4_Step(IF writer = c THEN work[c] ELSE db, work'[c])]_vars

C6_ClearCounts ==
    [][/\ resp'.op = "clear" =>
            /\ resp'.deleted = Cardinality(db.rows)
            /\ db'.rows = {}
            /\ SelectMatches(db'.rows) = << >>
       /\ resp'.op = "matches" /\ db.rows = {} => resp'.rows = << >>]_vars

\* a clear of a store of two rows has answered 2 and the store is empty
C6_Witness ==
    /\ resp.op = "clear"
    /\ resp.deleted = 2
    /\ db.rows = {}

\* the group of a row in the list of C7
Group(r) == <<r.name_norm, r.date_published, r.volume_no>>

\* the order of the list of C7: empty dates last, then later dates first,
\* then names ascending
RecordsBefore(a, b) ==
    \/ a.date_published # "" /\ b.date_published = ""
    \/ /\ (a.date_published = "") = (b.date_published = "")
       /\ \/ TextRank(a.date_published) > TextRank(b.date_published)
          \/ /\ a.date_published = b.date_published
             /\ TextRank(a.name_norm) <= TextRank(b.name_norm)

\* C7: the list shows one row for each (name_norm, date_published, volume_no)
\* of the store, the row of the group with the lowest id, ordered by date
\* descending with empty dates last and then by name_norm ascending
C7_OnePerGroup ==
    resp.op = "matches" =>
        LET L == resp.rows IN
        /\ \A a, b \in 1..Len(L) : a # b => Group(L[a]) # Group(L[b])
        /\ \A r \in db.rows : \E a \in 1..Len(L) : Group(L[a]) = Group(r)
        /\ \A a \in 1..Len(L) :
            /\ L[a] \in db.rows
            /\ \A r \in db.rows : Group(r) = Group(L[a]) => L[a].id <= r.id
        /\ \A a, b \in 1..Len(L) : a < b => RecordsBefore(L[a], L[b])

\* C8: when a saveMatchesToDB call with a non-empty array returns, every
\* stored row that shares a non-null excel_name with another stored row has
\* duplicate = 1, the rows of earlier calls included
C8_DuplicatesFlagged ==
    resp.op = "save" /\ resp.error = "" /\ resp.len > 0 =>
        \A r \in db.rows :
            (/\ r.excel_name # NULL
             /\ \E q \in db.rows \ {r} : q.excel_name = r.excel_name)
                => r.duplicate = 1

\* a call that upserted one row has returned, and its row and a row of an
\* earlier call carry the same excel_name and are both flagged
C8_Witness ==
    /\ resp.op = "save" /\ resp.error = ""
    /\ resp.len = 1 /\ Len(resp.inserted) = 1
    /\ \E r, q \in db.rows :
        /\ r # q
        /\ r.excel_name # NULL /\ r.excel_name = q.excel_name
        /\ r.duplicate = 1 /\ q.duplicate = 1

----------------------------------------------------------------------------
\* The properties of processMatches

\* whether a candidate has a gazette side and a registry side
Complete(cand) == cand.g # <<>> /\ cand.ex # <<>>

\* the positions of list at which candidate k stands
Places(list, k) == {x \in 1..Len(list) : list[x].cand = k}

\* C9: processMatches puts a candidate that has both sides in exactly one
\* tier: score >= acceptThreshold in accepted with status Approved, else
\* score >= reviewThreshold in review with status Published, else in neither
\* list; no candidate is in both lists and matchedCount is the length of the
\* two lists together
C9_Tiers ==
    resp.op = "process" /\ resp.error = "" =>
        LET q == resp.request
            cs == q.candidates
        IN  /\ \A k \in 1..Len(cs) :
                LET acc == Places(resp.accepted, k)
                    rev == Places(resp.review, k)
                IN  IF Complete(cs[k]) /\ AtLeast(cs[k].score, q.acceptThreshold)
                    THEN /\ Cardinality(acc) = 1 /\ rev = {}
                         /\ \A x \in acc :
                              resp.accepted[x].public.status_at_gp = "Approved"
                    ELSE IF Complete(cs[k])
                            /\ AtLeast(cs[k].score, q.reviewThreshold)
                    THEN /\ acc = {} /\ Cardinality(rev) = 1
                         /\ \A x \in rev :
                              resp.review[x].public.status_at_gp = "Published"
                    ELSE acc = {} /\ rev = {}
            /\ \A x \in 1..Len(resp.accepted) : resp.accepted[x].cand \in 1..Len(cs)
            /\ \A x \in 1..Len(resp.review) : resp.review[x].cand \in 1..Len(cs)
            /\ resp.matchedCount = Len(resp.accepted) + Len(resp.review)

\* a run has returned with a candidate in accepted and a candidate in review
C9_Witness ==
    /\ resp.op = "process" /\ resp.error = ""
    /\ Len(resp.accepted) >= 1
    /\ Len(resp.review) >= 1

\* C10: a run of processMatches hands the store the rows of the accept tier
\* and no other row: no row of the review tier and no discarded row is
\* stored, and the review rows go back to the caller
C10_OnlyAcceptStored ==
    /\ \A c \in Callers : proc[c].on =>
        LET q == proc[c] IN
        /\ Len(given[c]) = Len(q.accepted)
        /\ \A k \in 1..Len(given[c]) :
            /\ given[c][k] = q.accepted[k].public
            /\ AtLeast(q.candidates[q.accepted[k].cand].score, q.acceptThreshold)
        /\ Len(inserted[c]) <= Len(q.accepted)
    /\ \A t \in Tables : \A r \in t.rows :
        /\ r.status_at_gp = "Approved"
        /\ r.first = "Approved"
    /\ resp.op = "process" /\ resp.error = "" =>
        LET q == resp.request IN
        /\ resp.insertedCount <= Len(resp.accepted)
        /\ resp.review = q.review
        /\ \A k \in 1..Len(q.candidates) :
            (/\ Complete(q.candidates[k])
             /\ ~AtLeast(q.candidates[k].score, q.acceptThreshold)
             /\ AtLeast(q.candidates[k].score, q.reviewThreshold))
                => Places(resp.review, k) # {}

\* a run with an accept row and a review row has returned: the accept row is
\* stored and the review row is in the answer
C10_Witness ==
    /\ resp.op = "process" /\ resp.error = ""
    /\ Len(resp.review) >= 1
    /\ resp.insertedCount >= 1
    /\ \E r \in db.rows : r.excel_name = resp.accepted[1].public.excel_name

\* the composite key of a candidate in the lists of a run
CompositeKey(e) ==
    <<normalizeForDB(e.public.name_of_deceased), e.public.date_published,
      e.public.volume_no>>

\* C11: the accepted and review lists of one run together hold at most one
\* candidate for each (name_norm, date_published, volume_no): of several
\* candidates with one key only the first is kept
C11_OnePerCompositeKey ==
    resp.op = "process" /\ resp.error = "" =>
        LET all == resp.accepted \o resp.review IN
        \A a, b \in 1..Len(all) :
            a # b => CompositeKey(all[a]) # CompositeKey(all[b])

\* thresholds as C13 wants them: both in [0, 1] (in tenths) and the review
\* threshold not above the accept threshold
ValidThresholds(q) ==
    /\ q.acceptThreshold \in 0..10
    /\ q.reviewThreshold \in 0..10
    /\ q.reviewThreshold <= q.acceptThreshold

\* C13: processMatches rejects a reviewThreshold above the acceptThreshold,
\* and a threshold outside [0, 1], before it classifies a candidate or writes
\* to the store
C13_ThresholdsValidated ==
    /\ \A c \in Callers : proc[c].on => ValidThresholds(proc[c])
    /\ resp.op = "process" /\ resp.error = "" => ValidThresholds(resp.request)

----------------------------------------------------------------------------
\* The properties of POST /match

\* the rows of the answer that pair gazette record k with registry row r
Pairs(list, k, r) == {x \in 1..Len(list) : list[x].rec = k /\ list[x].row = r}

\* the rows of the answer of gazette record k
PairsOf(list, k) == {x \in 1..Len(list) : list[x].rec = k}

\* C12: a matching call with a mode other than exact, tokens and fuzzy ends
\* in an unknown-mode error for every input, an empty list of gazette records
\* included, and hands nothing to the store
C12_UnknownModeRejected ==
    /\ resp.op = "match" /\ resp.request.mode \notin ValidModes =>
        resp.error = "Unknown mode"
    /\ \A c \in Callers : proc[c].route = "match" => proc[c].mode \in ValidModes

\* C19: in fuzzy mode the registry rows selected for a gazette record are at
\* most 5, each scores at least the caller's threshold, and no row left out
\* scores more than a selected row
C19_FuzzyTop ==
    resp.op = "match" /\ resp.error = "" /\ resp.request.mode = "fuzzy" =>
        LET q == resp.request
            ScoreAt(k, r) ==
                CompositeScore(q.gazetteRecords[k].name_of_deceased,
                               q.excelRows[r + 1]._name_raw)
            Rows == {r - 1 : r \in 1..Len(q.excelRows)}
        IN \A k \in 1..Len(q.gazetteRecords) :
            LET chosen == {resp.rows[x].row : x \in PairsOf(resp.rows, k)} IN
            /\ Cardinality(PairsOf(resp.rows, k)) <= 5
            /\ \A r \in chosen : ScoreAt(k, r) >= q.asked
            /\ \A r \in chosen : \A o \in Rows \ chosen :
                    ScoreAt(k, o) <= ScoreAt(k, r)

\* C20: in exact mode a gazette record is matched with the registry rows
\* whose non-empty normalized name equals its normalized name, once with
\* each of them, and with no other row
C20_ExactMatches ==
    resp.op = "match" /\ resp.error = "" /\ resp.request.mode = "exact" =>
        LET q == resp.request IN
        /\ \A k \in 1..Len(q.gazetteRecords) : \A r \in 1..Len(q.excelRows) :
            LET gNorm == normalizeName(q.gazetteRecords[k].name_of_deceased)
                exNorm == normalizeName(q.excelRows[r]._name_raw)
            IN Cardinality(Pairs(resp.rows, k, r - 1)) =
                    IF exNorm # "" /\ exNorm = gNorm THEN 1 ELSE 0
        /\ \A x \in 1..Len(resp.rows) :
            /\ resp.rows[x].rec \in 1..Len(q.gazetteRecords)
            /\ resp.rows[x].row + 1 \in 1..Len(q.excelRows)
        /\ resp.matchedCount = Len(resp.rows)

\* the gazette record JOHN KAMAU and a registry of the row JOHN KAMAU and a
\* row of another name have given exactly one match, which was stored
C20_Witness ==
    /\ resp.op = "match" /\ resp.error = "" /\ resp.request.mode = "exact"
    /\ Len(resp.request.gazetteRecords) = 1
    /\ resp.request.gazetteRecords[1].name_of_deceased = "JOHN KAMAU"
    /\ Len(resp.request.excelRows) = 2
    /\ resp.request.excelRows[1]._name_raw = "JOHN KAMAU"
    /\ resp.request.excelRows[2]._name_raw = "Kamau, John"
    /\ resp.matchedCount = 1
    /\ resp.insertedCount = 1


\* C14: every handle a persistence operation (saveMatchesToDB, clearMatches,
\* the /matches read) opened is closed when the operation ends, also when it
\* ends in a failure of prepare, of a statement, of ROLLBACK, of
\* flagDuplicates or of the read query
C14_HandlesClosed ==
    resp # NoResp => resp.unclosed = 0


\* the two calls have both left their batch loops
BothThrough == \A c \in Callers : pc[c] \in {"flag", "flagupd", "close"}

\* the values call c carried, as bound to the statement
Carried(c) == {Bind(given[c][k]) : k \in 1..Len(given[c])}

\* C15: two concurrent saveMatchesToDB calls never leave two stored rows with
\* one composite key, and when both carried a key, its row is Approved if
\* either carried Approved and its score is no less than the larger of the
\* two scores (the claim: equal to it, the key being new)
C15_ConcurrentMerge ==
    /\ \A t \in Tables : \A r \in t.rows, q \in t.rows : Key(r) = Key(q) => r = q
    /\ BothThrough =>
          \A a \in Carried(1), b \in Carried(2) :
              Key(a) = Key(b) =>
                  \E r \in db.rows :
                      /\ Key(r) = Key(a)
                      /\ "Approved" \in {a.status_at_gp, b.status_at_gp}
                            => r.status_at_gp = "Approved"
                      /\ r.score >= Max2(a.score, b.score)


----------------------------------------------------------------------------
\* The properties of extractGazetteRecords

\* the call has returned its records
Returned == ~scan.on /\ scan # NoScan

\* the records the cause line at a has pushed
RecordsAt(a) == {k \in 1..Len(scan.records) : scan.records[k].at = a}

\* the court headers before line a
HeadersBefore(a) == {h \in 1..(a - 1) : scan.lines[h].station # ""}

\* C16: every record carries the station of the most recent court header
\* before its cause line, or "Unknown Court" when none precedes it; a header
\* line emits no record; the three lines of the example give exactly one
\* record: Nairobi High Court, 123 OF 2020, JOHN KAMAU
C16_StationOfRecord ==
    /\ \A k \in 1..Len(scan.records) :
          LET r == scan.records[k]
              heads == HeadersBefore(r.at)
          IN /\ scan.lines[r.at].station = ""
             /\ r.court_station =
                   IF heads = {} THEN "Unknown Court"
                   ELSE scan.lines[CHOOSE h \in heads : \A m \in heads : m <= h].station
    /\ (Returned /\ scan.lines = ExampleText) =>
          /\ Len(scan.records) = 1
          /\ scan.records[1].court_station = "Nairobi High Court"
          /\ scan.records[1].cause_no = "123 OF 2020"
          /\ scan.records[1].name_of_deceased = "JOHN KAMAU"

\* a text whose second header is the most recent one before the cause line
C16_Witness ==
    /\ Returned
    /\ scan.lines = <<HeaderNairobi, HeaderKisumu, CauseWithEstate>>
    /\ Len(scan.records) = 1
    /\ scan.records[1].court_station = "Kisumu Magistrates Court"

\* an "ESTATE OF" marker on line a or on one of the 5 lines after it
MarkerNear(a) ==
    \E k \in a..(a + 5) : k <= Len(scan.lines) /\ HasEstate(scan.lines[k])

\* C17: a cause line emits at most one record, and none when no marker
\* stands on it or on one of the 5 lines after it or when the cleaned name
\* is empty; the scan goes on: it reads every line, and the later cause
\* lines that have a marker and a name emit their records
C17_CauseEmits ==
    /\ \A a \in 1..scan.i :
          /\ Cardinality(RecordsAt(a)) <= 1
          /\ (~MarkerNear(a) \/ CleanName(EstateBlock(scan.lines, a)) = "")
                => RecordsAt(a) = {}
          /\ scan.lines[a].cause = "" => RecordsAt(a) = {}
    /\ Returned =>
          /\ scan.i = Len(scan.lines)
          /\ \A a \in 1..Len(scan.lines) :
                (/\ scan.lines[a].station = ""
                 /\ scan.lines[a].cause # ""
                 /\ MarkerNear(a)
                 /\ CleanName(EstateBlock(scan.lines, a)) # "")
                    => RecordsAt(a) # {}

\* a cause line with no marker within 5 lines was skipped and a later cause
\* line emitted
C17_Witness ==
    /\ Returned
    /\ scan.lines = SkippedThenEmitted
    /\ Len(scan.records) = 1
    /\ scan.records[1].at = 7
    /\ scan.records[1].name_of_deceased = "MARY WANJIRU"

\* the lines with an "estate of <NAME>" phrase
PhraseLines ==
    {k \in 1..Len(scan.lines) :
        \E m \in 1..(Len(scan.lines[k].words) - 1) :
            /\ scan.lines[k].words[m] = "ESTATE OF"
            /\ scan.lines[k].words[m + 1] \in {"JOHN", "MARY"}}

\* C18: when the body pass emits no record, the fallback pass runs: a text
\* with no cause line and with "estate of <NAME>" phrases yields records
\* with empty court_station and cause_no and the volume and date of the
\* document
C18_FallbackPass ==
    (/\ Returned
     /\ \A k \in 1..Len(scan.lines) : scan.lines[k].cause = ""
     /\ PhraseLines # {})
        => \E k \in 1..Len(scan.records) :
              /\ scan.records[k].court_station = ""
              /\ scan.records[k].cause_no = ""
              /\ scan.records[k].volume_no = scan.info.volumeNo
              /\ scan.records[k].date_published = scan.info.datePublished

----------------------------------------------------------------------------
\* The properties of the resolver of the name column

\* the synonyms of the claim, in their priority order
ClaimedSynonyms ==
    <<"name of the deceased", "name of deceased", "name deceased",
      "deceased name", "deceased s name", "name deceased s",
      "name (deceased)", "full name", "fullname", "deceased", "name">>

\* the entries of the row whose label is synonym c and whose cell is filled
Filled(row, c) ==
    {k \in 1..Len(row) :
        normKey(row[k][1]) = ClaimedSynonyms[c] /\ row[k][2] # ""}

\* the answer the claim gives for the row
Claimed(row) ==
    LET hits == {c \in 1..Len(ClaimedSynonyms) : Filled(row, c) # {}}
        loose == {k \in 1..Len(row) :
                    IncludesDeceased(normKey(row[k][1])) /\ row[k][2] # ""}
    IN IF hits # {}
       THEN LET c == CHOOSE x \in hits : \A m \in hits : x <= m
            IN TrimCell(row[CHOOSE k \in Filled(row, c) :
                              \A m \in Filled(row, c) : k <= m][2])
       ELSE IF loose # {}
       THEN TrimCell(row[CHOOSE k \in loose : \A m \in loose : k <= m][2])
       ELSE ""

\* C21: the resolver of helpers/match.js returns the value of the first
\* synonym in priority order (the list holds "name") whose label is in the
\* row with a non-empty value, else the first non-empty value whose label
\* contains "deceased", else ""; a row whose only name column is "Name"
\* resolves to that column's value
C21_ResolverPriority ==
    sheet.by = "match.js" => sheet.rawName = Claimed(sheet.row)

\* the copy of part_002 answers as the claim says
LegacyFollowsClaim ==
    sheet.by = "part_002" => sheet.rawName = Claimed(sheet.row)

----------------------------------------------------------------------------
\* The list saveMatchesToDB returns

\* the batch of the element of matches at place x (from 1)
BatchOf(c, x) == ((x - 1) \div bs[c]) + 1

\* C22: every row of the list saveMatchesToDB returns was committed by the
\* call: no row of a batch that failed and was rolled back is in the list
C22_ReturnedWereCommitted ==
    \A c \in Callers :
        pc[c] = "close" =>
            \A k \in 1..Len(inserted[c]) :
                outcomes[c][BatchOf(c, inserted[c][k])] = "commit"

----------------------------------------------------------------------------
\* The notice a name comes from

\* the first line with a marker on the cause line at a or on one of the 5
\* lines after it, 0 when there is none
FirstMarker(a) ==
    LET near == {k \in a..(a + 5) :
                    k <= Len(scan.lines) /\ HasEstate(scan.lines[k])}
    IN IF near = {} THEN 0 ELSE CHOOSE k \in near : \A m \in near : k <= m

\* the cause lines after line a up to line k: the notices that begin there
CausesBetween(a, k) ==
    {c \in (a + 1)..k : c <= Len(scan.lines) /\ scan.lines[c].cause # ""}

\* C23: the name of a record comes from the first marker in the lookahead
\* of its own cause line; with two notices close to each other no record
\* carries the name of the notice of another cause, and no "ESTATE OF" line
\* gives the name of two records
C23_NameOfOwnNotice ==
    /\ \A k \in 1..Len(scan.records) :
          LET r == scan.records[k]
          IN /\ r.from = FirstMarker(r.at)
             /\ CausesBetween(r.at, r.from) = {}
    /\ \A k \in 1..Len(scan.records), m \in 1..Len(scan.records) :
          scan.records[k].from = scan.records[m].from => k = m


====
